---- MODULE Spec2Model ----
(***************************************************************************)
(* Model of the cron expression package (src/expr.go): the parser that     *)
(* turns a five-field expression into five bit masks, and the navigator    *)
(* (Expr.Next / Expr.Prev) that walks from an instant to the nearest       *)
(* matching minute.                                                        *)
(*                                                                         *)
(* Representation.                                                         *)
(*  - A Go string is a sequence of one-character strings.                  *)
(*  - An unsigned integer used as a bit mask is the set of the positions   *)
(*    of its set bits (a subset of 0..63); a narrowing conversion keeps    *)
(*    the positions below the width.  Subtraction of masks is done bit by  *)
(*    bit with borrow, modulo 2^64.                                        *)
(*  - A time.Time in a fixed-offset location is a record [m, s]: m counts  *)
(*    minutes since 0000-03-01T00:00 (proleptic Gregorian), s is the       *)
(*    seconds part 0..59.                                                  *)
(***************************************************************************)
EXTENDS Integers, Sequences, FiniteSets, TLC

VARIABLES
    expr,     \* the text handed to Parse
    e,        \* the Expr value returned by Parse
    err,      \* the error returned by Parse ("nil" when none)
    pc,       \* position of the program
    op,       \* the navigation method running: "Next", "Prev" or "none"
    from,     \* argument of the running navigation call
    t,        \* working instant of the running call; its result when pc = "done"
    dateY,    \* locals of Next/Prev
    dateMon,
    dateDom,
    doy,
    hist,     \* completed navigation calls: <<[op, from, result], ...>>
    fin,      \* input of a stand-alone parseField call: [typ, groups]
    fout      \* its result: [field, err]

vars == <<expr, e, err, pc, op, from, t, dateY, dateMon, dateDom, doy, hist, fin, fout>>

-----------------------------------------------------------------------------
(* Bit masks *)

Bits64 == 0 .. 63

\* uint64(1) << n
Shl1(n) == IF n \in Bits64 THEN {n} ELSE {}

\* conversion to an unsigned type of width w
Trunc(field, w) == {b \in field : b < w}

RECURSIVE SubBorrow(_, _, _, _)
SubBorrow(a, b, i, borrow) ==
    IF i > 63 THEN {}
    ELSE LET d == (IF i \in a THEN 1 ELSE 0) - (IF i \in b THEN 1 ELSE 0) - borrow
         IN  (IF d % 2 = 1 THEN {i} ELSE {}) \cup
             SubBorrow(a, b, i + 1, IF d < 0 THEN 1 ELSE 0)

\* a - b on uint64 (wraps modulo 2^64)
Sub64(a, b) == SubBorrow(a, b, 0, 0)

SetMin(S) == CHOOSE x \in S : \A y \in S : x <= y
SetMax(S) == CHOOSE x \in S : \A y \in S : x >= y

-----------------------------------------------------------------------------
(* Strings *)

\* strings.Cut(s, sep) for a one-character separator
Cut(s, sep) ==
    IF \E i \in 1 .. Len(s) : s[i] = sep
    THEN LET i == SetMin({j \in 1 .. Len(s) : s[j] = sep})
         IN  [before |-> SubSeq(s, 1, i - 1),
              after  |-> SubSeq(s, i + 1, Len(s)),
              found  |-> TRUE]
    ELSE [before |-> s, after |-> <<>>, found |-> FALSE]

Upper == <<"A","B","C","D","E","F","G","H","I","J","K","L","M",
           "N","O","P","Q","R","S","T","U","V","W","X","Y","Z">>
Lower == <<"a","b","c","d","e","f","g","h","i","j","k","l","m",
           "n","o","p","q","r","s","t","u","v","w","x","y","z">>

toLower(b) ==
    IF \E i \in 1 .. 26 : Upper[i] = b
    THEN Lower[CHOOSE i \in 1 .. 26 : Upper[i] = b]
    ELSE b

DigitChars == <<"0","1","2","3","4","5","6","7","8","9">>
IsDigit(c) == \E i \in 1 .. 10 : DigitChars[i] = c
DigitVal(c) == (CHOOSE i \in 1 .. 10 : DigitChars[i] = c) - 1

RECURSIVE AtoiVal(_)
AtoiVal(s) ==
    IF s = <<>> THEN 0
    ELSE 10 * AtoiVal(SubSeq(s, 1, Len(s) - 1)) + DigitVal(s[Len(s)])

\* strconv.Atoi on a string that does not start with a sign (parseNumber
\* rejects a leading sign before it calls Atoi)
Atoi(s) ==
    IF s # <<>> /\ \A i \in 1 .. Len(s) : IsDigit(s[i])
    THEN [n |-> AtoiVal(s), ok |-> TRUE]
    ELSE [n |-> 0, ok |-> FALSE]

-----------------------------------------------------------------------------
(* Field parser *)

fieldMinutes     == "minutes"
fieldHours       == "hours"
fieldDaysOfMonth == "days of month"
fieldMonths      == "months"
fieldDaysOfWeek  == "days of week"

monFromName(name) ==
    IF Len(name) # 3 THEN [n |-> 0, ok |-> FALSE]
    ELSE LET l == <<toLower(name[1]), toLower(name[2]), toLower(name[3])>>
         IN  CASE l = <<"a","p","r">> -> [n |-> 4,  ok |-> TRUE]
               [] l = <<"a","u","g">> -> [n |-> 8,  ok |-> TRUE]
               [] l = <<"d","e","c">> -> [n |-> 12, ok |-> TRUE]
               [] l = <<"f","e","b">> -> [n |-> 2,  ok |-> TRUE]
               [] l = <<"j","a","n">> -> [n |-> 1,  ok |-> TRUE]
               [] l = <<"j","u","l">> -> [n |-> 7,  ok |-> TRUE]
               [] l = <<"j","u","n">> -> [n |-> 6,  ok |-> TRUE]
               [] l = <<"m","a","r">> -> [n |-> 3,  ok |-> TRUE]
               [] l = <<"m","a","y">> -> [n |-> 5,  ok |-> TRUE]
               [] l = <<"n","o","v">> -> [n |-> 11, ok |-> TRUE]
               [] l = <<"o","c","t">> -> [n |-> 10, ok |-> TRUE]
               [] l = <<"s","e","p">> -> [n |-> 9,  ok |-> TRUE]
               [] OTHER               -> [n |-> 0,  ok |-> FALSE]

dowFromName(name) ==
    IF Len(name) # 3 THEN [n |-> 0, ok |-> FALSE]
    ELSE LET l == <<toLower(name[1]), toLower(name[2]), toLower(name[3])>>
         IN  CASE l = <<"f","r","i">> -> [n |-> 5, ok |-> TRUE]
               [] l = <<"m","o","n">> -> [n |-> 1, ok |-> TRUE]
               [] l = <<"s","a","t">> -> [n |-> 6, ok |-> TRUE]
               [] l = <<"s","u","n">> -> [n |-> 0, ok |-> TRUE]
               [] l = <<"t","h","u">> -> [n |-> 4, ok |-> TRUE]
               [] l = <<"t","u","e">> -> [n |-> 2, ok |-> TRUE]
               [] l = <<"w","e","d">> -> [n |-> 3, ok |-> TRUE]
               [] OTHER               -> [n |-> 0, ok |-> FALSE]

parseNumber(typ, s, min, max) ==
    IF Len(s) > 0 /\ (s[1] = "+" \/ s[1] = "-")
    THEN [n |-> 0, err |-> "leading sign found"]
    ELSE LET a == Atoi(s)
         IN  IF ~a.ok THEN [n |-> a.n, err |-> "invalid syntax"]
             ELSE IF a.n < min \/ a.n > max
                  THEN [n |-> a.n, err |-> "value out of range found"]
                  ELSE [n |-> a.n, err |-> "nil"]

\* the alias when the switch of parseAliasOrNumber found one, else the number
aliasOr(a, num) == IF a.ok THEN [n |-> a.n, err |-> "nil"] ELSE num

parseAliasOrNumber(typ, s, min, max) ==
    aliasOr(CASE typ = fieldMonths     -> monFromName(s)
              [] typ = fieldDaysOfWeek -> dowFromName(s)
              [] OTHER                 -> [n |-> 0, ok |-> FALSE],
            parseNumber(typ, s, min, max))

\* parseGroup from "if rangeStep == ..." on: f and tt are the parsed ends
groupStep(typ, rangeStep, f, tt, min, max) ==
    LET st == IF rangeStep = <<>> THEN [n |-> 1, err |-> tt.err]
              ELSE IF tt.err = "nil" THEN parseNumber(typ, rangeStep, 1, max - min + 1)
              ELSE [n |-> 0, err |-> tt.err]
    IN  [from |-> f.n, to |-> tt.n, step |-> st.n, err |-> st.err]

\* parseGroup from "if rangeTo == ..." on: f is the parsed range start
groupTo(typ, rangeTo, rangeStep, f, min, max) ==
    groupStep(typ, rangeStep, f,
              IF rangeTo = <<>> /\ rangeStep = <<>> THEN [n |-> f.n, err |-> f.err]
              ELSE IF rangeTo = <<>> THEN [n |-> max, err |-> f.err]
              ELSE IF f.err = "nil" THEN parseAliasOrNumber(typ, rangeTo, f.n, max)
              ELSE [n |-> 0, err |-> f.err],
              min, max)

\* parseGroup after the two cuts: cs is the cut at "/", cr the cut at "-"
groupCut(typ, cs, cr, min, max) ==
    IF cs.found /\ cs.after = <<>>
    THEN [from |-> 0, to |-> 0, step |-> 0, err |-> "trailing slash found"]
    ELSE IF cr.found /\ cr.after = <<>>
    THEN [from |-> 0, to |-> 0, step |-> 0, err |-> "trailing dash found"]
    ELSE groupTo(typ, cr.after, cs.after,
                 parseAliasOrNumber(typ, cr.before, min, max), min, max)

groupSlash(typ, cs, min, max) == groupCut(typ, cs, Cut(cs.before, "-"), min, max)

parseGroup(typ, g, min, max) ==
    IF g = <<"*">> THEN [from |-> min, to |-> max, step |-> 1, err |-> "nil"]
    ELSE groupSlash(typ, Cut(g, "/"), min, max)

\* field |= uint64(1)<<(to+1) - uint64(1)<<from
rangeBits(lo, hi) == Sub64(Shl1(hi + 1), Shl1(lo))

\* the loop stopping one value early: i < to
stepBitsExclusive(lo, hi, step) ==
    UNION {Shl1(i) : i \in {j \in lo .. hi - 1 : (j - lo) % step = 0}}

\* for i := from; i <= to; i += step { field |= uint64(1) << i }
stepBits(lo, hi, step) ==
    UNION {Shl1(i) : i \in {j \in lo .. hi : (j - lo) % step = 0}}

groupBits(g) ==
    IF g.step = 1 THEN rangeBits(g.from, g.to) ELSE stepBits(g.from, g.to, g.step)

\* one turn of the loop of parseField: c is the cut at ",", g the parsed group
RECURSIVE parseGroups(_, _, _, _, _)
groupsTurn(c, g, typ, min, max, field) ==
    IF c.found /\ c.after = <<>>
    THEN [field |-> field, err |-> "trailing comma found"]
    ELSE IF g.err # "nil" THEN [field |-> field, err |-> g.err]
    ELSE parseGroups(c.after, typ, min, max, field \cup groupBits(g))

groupsCut(c, typ, min, max, field) ==
    groupsTurn(c, parseGroup(typ, c.before, min, max), typ, min, max, field)

parseGroups(groups, typ, min, max, field) ==
    IF groups = <<>> THEN [field |-> field, err |-> "nil"]
    ELSE groupsCut(Cut(groups, ","), typ, min, max, field)

parseField(groups, typ, min, max) ==
    IF groups = <<>> THEN [field |-> {}, err |-> "field is empty"]
    ELSE parseGroups(groups, typ, min, max, {})

-----------------------------------------------------------------------------
(* Expression parser and cross-field validation *)

splitFields(x) ==
    LET c1 == Cut(x, " ")
        c2 == Cut(c1.after, " ")
        c3 == Cut(c2.after, " ")
        c4 == Cut(c3.after, " ")
    IN  <<c1.before, c2.before, c3.before, c4.before, c4.after>>

\* 1<<1 | 1<<3 | 1<<5 | 1<<7 | 1<<8 | 1<<10 | 1<<12
monthsWith31Days == {1, 3, 5, 7, 8, 10, 12}
\* the February range one day too wide
domRange29Wide == {b + 1 : b \in Trunc(Sub64(Shl1(30), Shl1(0)), 32)}
\* (uint32(1)<<29 - 1) << 1
domRange29 == {b + 1 : b \in Trunc(Sub64(Shl1(29), Shl1(0)), 32)}
\* (uint32(1)<<30 - 1) << 1
domRange30 == {b + 1 : b \in Trunc(Sub64(Shl1(30), Shl1(0)), 32)}

zeroExpr == [expr |-> <<>>, m |-> {}, h |-> {}, dom |-> {}, mon |-> {}, dow |-> {}]

\* The five calls of the closure parseField in Parse: type, min, max.
fieldSpecs == << <<fieldMinutes, 0, 59>>, <<fieldHours, 0, 23>>,
                 <<fieldDaysOfMonth, 1, 31>>, <<fieldMonths, 1, 12>>,
                 <<fieldDaysOfWeek, 0, 6>> >>

\* The closure parses a field only while err is nil: r[i] is what call i
\* of the closure returns when every call before it left err nil.
closureCalls(sf) ==
    [i \in 1 .. 5 |->
        parseField(sf[i], fieldSpecs[i][1], fieldSpecs[i][2], fieldSpecs[i][3])]

\* err after the five calls, and the value call i of the closure returned
closureErr(r) ==
    IF \A i \in 1 .. 5 : r[i].err = "nil" THEN "nil"
    ELSE r[SetMin({i \in 1 .. 5 : r[i].err # "nil"})].err

closureField(r, i) ==
    IF \A j \in 1 .. i - 1 : r[j].err = "nil" THEN r[i].field ELSE {}

\* Parse from "Detect impossible combinations" on
validate(x, e0) ==
    IF e0.mon \cap monthsWith31Days = {}
         /\ e0.dom \cap (IF e0.mon = {2} THEN domRange29 ELSE domRange30) = {}
    THEN [e |-> e0,
          err |-> IF e0.mon = {2} THEN "doesn't match any day of month 2"
                  ELSE "doesn't match any day of months 4, 6, 9 or 11"]
    ELSE [e |-> [e0 EXCEPT !.expr = x], err |-> "nil"]

parsed(x, e0, perr) ==
    IF perr # "nil" THEN [e |-> e0, err |-> perr] ELSE validate(x, e0)

fields(x, r) ==
    parsed(x,
           [expr |-> <<>>,
            m    |-> closureField(r, 1),
            h    |-> Trunc(closureField(r, 2), 32),
            dom  |-> Trunc(closureField(r, 3), 32),
            mon  |-> Trunc(closureField(r, 4), 16),
            dow  |-> Trunc(closureField(r, 5), 8)],
           closureErr(r))

Parse(x) == fields(x, closureCalls(splitFields(x)))

-----------------------------------------------------------------------------
(* Calendar: the parts of package time that Next and Prev use *)

MinutesPerDay == 24 * 60
DaysPerCycle  == 400 * 365 + 97    \* days in 400 Gregorian years

\* maxDomForMon
maxDomForMon(y, mon) ==
    CASE mon = 2 ->
            IF (y % 4 = 0 /\ y % 100 # 0) \/ y % 400 = 0 THEN 29 ELSE 28
      [] mon \in {4, 6, 9, 11} -> 30
      [] OTHER -> 31

\* Days from 0000-03-01 to the first of month mon (1..12) of year y.
DaysToMonth(y, mon) ==
    LET yy  == IF mon <= 2 THEN y - 1 ELSE y
        era == yy \div 400
        yoe == yy - era * 400
        mp  == IF mon > 2 THEN mon - 3 ELSE mon + 9
    IN  era * DaysPerCycle + yoe * 365 + yoe \div 4 - yoe \div 100
          + (153 * mp + 2) \div 5

\* time.Date(y, mon, d, h, mi, 0, 0, loc): out-of-range month, day, hour and
\* minute values are normalised by carrying into the next larger unit.
Date(y, mon, d, h, mi) ==
    LET yy == y + (mon - 1) \div 12
        mm == ((mon - 1) % 12) + 1
    IN  [m |-> (DaysToMonth(yy, mm) + d - 1) * MinutesPerDay + h * 60 + mi,
         s |-> 0]

DayOf(x) == x.m \div MinutesPerDay

\* t.Date(): year, month and day of the day number z
Civil(z) ==
    LET era == z \div DaysPerCycle
        doe == z - era * DaysPerCycle
        yoe == (doe - doe \div 1460 + doe \div 36524 - doe \div 146096) \div 365
        dy  == doe - (365 * yoe + yoe \div 4 - yoe \div 100)
        mp  == (5 * dy + 2) \div 153
        mon == IF mp < 10 THEN mp + 3 ELSE mp - 9
    IN  [y   |-> yoe + era * 400 + (IF mon <= 2 THEN 1 ELSE 0),
         mon |-> mon,
         dom |-> dy - (153 * mp + 2) \div 5 + 1]

\* t.Weekday(): 0 = Sunday (0000-03-01 is a Wednesday)
Weekday(x) == ((DayOf(x) + 3) % 7)

\* t.YearDay(): 1 for January 1st
YearDay(x) == DayOf(x) - DaysToMonth(Civil(DayOf(x)).y, 1) + 1

\* t.Clock(): hour and minute
ClockH(x) == (x.m % MinutesPerDay) \div 60
ClockM(x) == x.m % 60

\* Truncate with the seconds left in place
TruncateKeepsSeconds(x) == x

\* t.Truncate(time.Minute)
Truncate(x) == [m |-> x.m, s |-> 0]
\* t.Add(n * time.Minute)
AddMinutes(x, n) == [m |-> x.m + n, s |-> x.s]

-----------------------------------------------------------------------------
(* Bit-scan primitives *)

\* prev with the sentinel one too high: limit instead of limit-1
prevSentinelAtLimit(i, limit, field) ==
    LET masked == {b \in field : b < i + 1}
        p      == IF masked = {} THEN 0 - 1 ELSE SetMax(masked)
    IN  IF p < limit THEN limit ELSE p

\* prev: i++; mask := ^(^uint64(0) << i); bits.Len64(field&mask) - 1
prev(i, limit, field) ==
    LET masked == {b \in field : b < i + 1}
        p      == IF masked = {} THEN 0 - 1 ELSE SetMax(masked)
    IN  IF p < limit THEN limit - 1 ELSE p

\* next with the mask shifted one position too far
nextSkipsOne(i, limit, field) ==
    LET masked == {b \in field : b >= i + 2}
        n      == IF masked = {} THEN 64 ELSE SetMin(masked)
    IN  IF n > limit THEN limit + 1 ELSE n

\* next: i++; mask := ^uint64(0) << i; bits.TrailingZeros64(field&mask)
next(i, limit, field) ==
    LET masked == {b \in field : b >= i + 1}
        n      == IF masked = {} THEN 64 ELSE SetMin(masked)
    IN  IF n > limit THEN limit + 1 ELSE n

-----------------------------------------------------------------------------
(* Navigator: one pass through a loop of Next or Prev.  Each operator gives *)
(* the locals after the pass; pc tells where control goes: "day" (the      *)
(* day-search loop), "hour" (the hour-search loop) or "done" (return t).   *)

Locals(tt, p, y, mon, dom, d) ==
    [t |-> tt, pc |-> p, dateY |-> y, dateMon |-> mon, dateDom |-> dom, doy |-> d]

\* Next, the loop labelled day, and doy := t.YearDay() when it breaks
NextDay(tt, E, d) ==
    LET c       == Civil(DayOf(tt))
        dateDow == Weekday(tt)
        go(y, mon, dom) == Locals(Date(y, mon, dom, 0, 0), "day", y, mon, dom, d)
    IN  IF c.mon \notin E.mon
            THEN go(c.y, next(c.mon, 12, E.mon), 1)
        ELSE IF c.dom \notin E.dom
            THEN go(c.y, c.mon, next(c.dom, maxDomForMon(c.y, c.mon), E.dom))
        ELSE IF dateDow \notin E.dow
            THEN go(c.y, c.mon, c.dom + (next(dateDow, 6, E.dow) - dateDow))
        ELSE Locals(tt, "hour", c.y, c.mon, c.dom, YearDay(tt))

\* Next, the loop labelled hour
NextHour(tt, E, y, mon, dom, d) ==
    LET dateH == ClockH(tt)
        dateM == ClockM(tt)
        go(h, mi) == LET nt == Date(y, mon, dom, h, mi)
                     IN  Locals(nt, IF YearDay(nt) # d THEN "day" ELSE "hour",
                                y, mon, dom, d)
    IN  IF dateH \notin E.h      THEN go(next(dateH, 23, E.h), 0)
        ELSE IF dateM \notin E.m THEN go(dateH, next(dateM, 59, E.m))
        ELSE Locals(tt, "done", y, mon, dom, d)

\* Prev, the loop labelled day, and doy := t.YearDay() when it breaks
PrevDay(tt, E, d) ==
    LET c       == Civil(DayOf(tt))
        dateDow == Weekday(tt)
        go(y, mon, dom) == Locals(Date(y, mon, dom, 23, 59), "day", y, mon, dom, d)
    IN  IF c.mon \notin E.mon
            THEN go(c.y, prev(c.mon, 1, E.mon) + 1, 0)
        ELSE IF c.dom \notin E.dom
            THEN go(c.y, c.mon, prev(c.dom, 1, E.dom))
        ELSE IF dateDow \notin E.dow
            THEN go(c.y, c.mon, c.dom - (dateDow - prev(dateDow, 0, E.dow)))
        ELSE Locals(tt, "hour", c.y, c.mon, c.dom, YearDay(tt))

\* Prev, the loop labelled hour
PrevHour(tt, E, y, mon, dom, d) ==
    LET dateH == ClockH(tt)
        dateM == ClockM(tt)
        go(h, mi) == LET nt == Date(y, mon, dom, h, mi)
                     IN  Locals(nt, IF YearDay(nt) # d THEN "day" ELSE "hour",
                                y, mon, dom, d)
    IN  IF dateH \notin E.h      THEN go(prev(dateH, 0, E.h) + 1, 0 - 1)
        ELSE IF dateM \notin E.m THEN go(dateH, prev(dateM, 0, E.m))
        ELSE Locals(tt, "done", y, mon, dom, d)

\* t := from.Truncate(time.Minute).Add(time.Minute)
NextStart(f) == AddMinutes(Truncate(f), 1)
\* Prev starting at the truncated instant itself
PrevStartNoStep(f) == Truncate(f)

\* t := from.Truncate(time.Minute).Add(-time.Minute)
PrevStart(f) == AddMinutes(Truncate(f), 0 - 1)

-----------------------------------------------------------------------------
(* Inputs *)

MinYear  == 2009   \* navigation is followed inside the years MinYear..MaxYear
MaxYear  == 2014
MaxCalls == 3      \* navigation calls chained on one Expr

\* expressions handed to Parse before navigating (FuzzCron's seeds and
\* expressions with a range written backwards)
NavExprs ==
    { <<"*"," ","*"," ","*"," ","*"," ","*">>,
      <<"0"," ","0"," ","1"," ","1"," ","*">>,
      <<"0"," ","0"," ","2","9"," ","2"," ","*">>,
      <<"3","0"," ","1","2"," ","3","1"," ","*"," ","*">>,
      <<"0","/","3","0"," ","9","-","1","7"," ","*"," ","*"," ","1","-","5">>,
      <<"5","9"," ","2","3"," ","*"," ","*"," ","0",",","6">>,
      <<"0"," ","0"," ","*"," ","*"," ","0">>,
      <<"1","5"," ","1","0"," ","1","5"," ","*"," ","*">>,
      <<"1","0",",","4","4"," ","1","4"," ","*"," ","3"," ","3">>,
      <<"0"," ","0"," ","1"," ","1"," ","s","u","n">>,
      <<"0"," ","0"," ","3","0",",","3","1"," ","4",",","6",",","9",",","1","1"," ","*">>,
      <<"0"," ","1","2"," ","1","/","5"," ","*"," ","*">>,
      <<"5"," ","0"," ","*"," ","2"," ","*">>,
      <<"0"," ","0"," ","1"," ","1","/","6"," ","*">>,
      <<"*"," ","1","4"," ","*"," ","*"," ","*">>,
      <<"0"," ","0"," ","3","1"," ","J","A","N",",","m","a","r"," ","*">>,
      <<"1","-","5","9","/","2"," ","0","/","2"," ","*"," ","*"," ","*">>,
      <<"*"," ","*"," ","*"," ","f","e","b","-","j","a","n"," ","*">>,
      <<"0"," ","0"," ","*"," ","m","a","r","-","j","a","n"," ","*">>,
      <<"0"," ","0"," ","*"," ","*"," ","s","a","t","-","s","u","n">>,
      <<"0"," ","0"," ","*"," ","d","e","c","-","o","c","t","/","2"," ","*">>,
      <<"*","/","5"," ","*"," ","*"," ","*"," ","*">>,
      <<"0"," ","0"," ","3","1"," ","4"," ","*">>,
      <<"0"," ","0"," ","1"," ","*"," ","*"," ","*">> }

\* time.Date(y, mon, d, h, mi, sec, 0, time.UTC)
Instant(y, mon, d, h, mi, sec) == [m |-> Date(y, mon, d, h, mi).m, s |-> sec]

\* instants handed to the first navigation call
Froms ==
    { Instant(2011, 1, 1, 0, 0, 0),
      Instant(2011, 3, 14, 14, 10, 0),
      Instant(2011, 4, 30, 12, 30, 15),
      Instant(2011, 12, 31, 23, 59, 0),
      Instant(2012, 1, 1, 0, 0, 0),
      Instant(2012, 2, 28, 23, 59, 30),
      Instant(2012, 2, 29, 12, 0, 0),
      Instant(2012, 3, 1, 0, 0, 0),
      Instant(2012, 7, 31, 12, 30, 0) }

InWindow(x) ==
    /\ Date(MinYear, 1, 1, 0, 0).m <= x.m
    /\ x.m < Date(MaxYear + 1, 1, 1, 0, 0).m

\* 400 Gregorian years hold a whole number of weeks: reducing an instant
\* modulo that period keeps its month, day, weekday, clock and leap-year rule.
Wrap(x) == [m |-> x.m % (DaysPerCycle * MinutesPerDay), s |-> x.s]

zeroTime == [m |-> 0, s |-> 0]
noField  == [typ |-> "none", groups |-> <<>>]
noResult == [field |-> {}, err |-> "none"]


\* expr = f[1] + " " + f[2] + " " + f[3] + " " + f[4] + " " + f[5]
Join5(f) == f[1] \o <<" ">> \o f[2] \o <<" ">> \o f[3] \o <<" ">> \o f[4] \o <<" ">> \o f[5]

\* minute fields of the parser corpus: well-formed ones and one per error kind
MinuteFields ==
    { <<"*">>,
      <<"0","/","3","0">>,
      <<"5","-","3">>,
      <<"5","-","3","/","2">>,
      <<"6","0">>,
      <<"3",",">>,
      <<"+","5">>,
      <<>>,
      <<"5","-">>,
      <<"5","/">>,
      <<"0","7">>,
      <<"*","/","5">>,
      <<"1","-","5","9","/","2">> }

\* hour fields of the parser corpus
HourFields ==
    { <<"9","-","1","7">>,
      <<"2","3","-","0">>,
      <<"2","4">>,
      <<"0","/","2","5">>,
      <<"0","/","0">>,
      <<"1","-","2","-","3">>,
      <<"1","/","2","/","3">>,
      <<",","1">>,
      <<"-","5">> }

\* day-of-month fields of the parser corpus (TestParseInvalidDom and neighbours)
DomFields ==
    { <<"*">>,
      <<"3","1">>,
      <<"3","0",",","3","1">>,
      <<"2","9",",","3","0",",","3","1">>,
      <<"3","0">>,
      <<"2","9">>,
      <<"1">>,
      <<"3","1","/","2">>,
      <<"2","8","-","3","0","/","2">>,
      <<"0">>,
      <<"3","1","-","3","0">> }

\* month fields of the parser corpus, with ranges written forwards and backwards
MonFields ==
    { <<"*">>,
      <<"2">>,
      <<"f","e","b">>,
      <<"F","E","B">>,
      <<"4",",","6",",","9",",","1","1">>,
      <<"a","p","r","-","j","u","n","/","2">>,
      <<"2",",","4">>,
      <<"1">>,
      <<"2",",","3">>,
      <<"n","o","v",",","F","e","b">>,
      <<"f","e","b","-","f","e","b">>,
      <<"f","e","b","-","j","a","n">>,
      <<"m","a","r","-","j","a","n">>,
      <<"M","A","R","-","J","A","N">>,
      <<"m","a","r","-","j","a","n","/","2">>,
      <<"3","-","j","a","n">>,
      <<"d","e","c","-","1">>,
      <<"6","-","4">>,
      <<"1","3">>,
      <<"f","e","b","-","j","a","n",",","6">>,
      <<"2","-","f","e","b">> }

\* day-of-week fields of the parser corpus
DowFields ==
    { <<"*">>,
      <<"m","o","n","-","f","r","i">>,
      <<"s","a","t","-","s","u","n">>,
      <<"6","-","s","u","n">>,
      <<"s","u","n">>,
      <<"f","r","i","-","m","o","n","/","2">>,
      <<"7">>,
      <<"1","-","5">>,
      <<"s","a","t","-","0">> }

star == <<"*">>

\* expressions handed to Parse alone
ParseExprs ==
    {Join5(<<f, star, star, star, star>>) : f \in MinuteFields}
    \cup {Join5(<<star, f, star, star, star>>) : f \in HourFields}
    \cup {Join5(<<star, star, d, mo, w>>) :
              d \in DomFields, mo \in MonFields, w \in DowFields}

-----------------------------------------------------------------------------
(* The reference parser of the tests (src/expr_test.go) *)

\* strings.ToLower(expr)
ToLower(x) == [i \in 1 .. Len(x) |-> toLower(x[i])]

\* strings.Split(field, ",")
RECURSIVE Split(_, _)
Split(x, sep) ==
    IF Cut(x, sep).found
    THEN <<Cut(x, sep).before>> \o Split(Cut(x, sep).after, sep)
    ELSE <<x>>

\* aliasToNumber: an alias of the field, else strconv.Atoi with its error dropped
aliasToNumber(x, typ) ==
    IF typ = fieldMonths /\ monFromName(x).ok /\ ToLower(x) = x THEN monFromName(x).n
    ELSE IF typ = fieldDaysOfWeek /\ dowFromName(x).ok /\ ToLower(x) = x THEN dowFromName(x).n
    ELSE IF Len(x) > 0 /\ x[1] = "+" THEN Atoi(Tail(x)).n
    ELSE IF Len(x) > 0 /\ x[1] = "-" THEN 0 - Atoi(Tail(x)).n
    ELSE Atoi(x).n

\* the from, to, step that parseCronField reads from one group
refGroup(num, typ, size) ==
    IF num = star THEN [from |-> 0, to |-> size - 1, step |-> 1]
    ELSE IF Cut(num, "/").found
    THEN [from |-> aliasToNumber(Cut(Cut(num, "/").before, "-").before, typ),
          to   |-> IF Cut(Cut(num, "/").before, "-").found
                   THEN aliasToNumber(Cut(Cut(num, "/").before, "-").after, typ)
                   ELSE size - 1,
          step |-> Atoi(Cut(num, "/").after).n]
    ELSE IF Cut(num, "-").found
    THEN [from |-> aliasToNumber(Cut(num, "-").before, typ),
          to   |-> aliasToNumber(Cut(num, "-").after, typ),
          step |-> 1]
    ELSE [from |-> aliasToNumber(num, typ), to |-> aliasToNumber(num, typ), step |-> 1]

\* parseCronField returns true: no group has to < from, from < 0 or step <= 0
parseCronField(field, typ, size) ==
    \A i \in 1 .. Len(Split(field, ",")) :
        LET g == refGroup(Split(field, ",")[i], typ, size)
        IN  ~(g.to < g.from \/ g.from < 0 \/ g.step <= 0)

-----------------------------------------------------------------------------
(* The program: Parse, then calls of Next and Prev on the parsed Expr *)

Init ==
    /\ expr \in NavExprs
    /\ e = zeroExpr
    /\ err = "nil"
    /\ pc = "start"
    /\ op = "none"
    /\ from = zeroTime
    /\ t = zeroTime
    /\ dateY = 0 /\ dateMon = 0 /\ dateDom = 0 /\ doy = 0
    /\ hist = <<>>
    /\ fin = noField
    /\ fout = noResult

\* e, err := Parse(expr)
DoParse ==
    /\ pc = "start"
    /\ \E r \in {Parse(expr)} :
           /\ e' = r.e
           /\ err' = r.err
           /\ pc' = IF r.err = "nil" THEN "ready" ELSE "failed"
    /\ UNCHANGED <<expr, op, from, t, dateY, dateMon, dateDom, doy, hist, fin, fout>>

Enter(o, f, start) ==
    /\ op' = o
    /\ from' = f
    /\ t' = start
    /\ pc' = "day"
    /\ dateY' = 0 /\ dateMon' = 0 /\ dateDom' = 0 /\ doy' = 0
    /\ UNCHANGED <<expr, e, err, hist, fin, fout>>

\* e.Next(f) is entered with an instant of the corpus
CallNext == pc = "ready" /\ \E f \in Froms : Enter("Next", f, NextStart(f))
\* e.Prev(f) is entered with an instant of the corpus
CallPrev == pc = "ready" /\ \E f \in Froms : Enter("Prev", f, PrevStart(f))
\* e.Next is entered with the result of the call before (FuzzCron's iteration)
AgainNext == pc = "done" /\ Len(hist) < MaxCalls /\ Enter("Next", t, NextStart(t))
\* e.Prev is entered with the result of the call before
AgainPrev == pc = "done" /\ Len(hist) < MaxCalls /\ Enter("Prev", t, PrevStart(t))

\* One pass of the running call: the locals become l.
Pass(l) ==
    /\ t' = l.t
    /\ pc' = l.pc
    /\ dateY' = l.dateY
    /\ dateMon' = l.dateMon
    /\ dateDom' = l.dateDom
    /\ doy' = l.doy
    /\ hist' = IF l.pc = "done"
               THEN Append(hist, [op |-> op, from |-> from, result |-> l.t])
               ELSE hist
    /\ UNCHANGED <<expr, e, err, op, from, fin, fout>>

NextDayStep  == pc = "day"  /\ op = "Next" /\ InWindow(t)
                   /\ \E l \in {NextDay(t, e, doy)} : Pass(l)
NextHourStep == pc = "hour" /\ op = "Next" /\ InWindow(t)
                   /\ \E l \in {NextHour(t, e, dateY, dateMon, dateDom, doy)} : Pass(l)
PrevDayStep  == pc = "day"  /\ op = "Prev" /\ InWindow(t)
                   /\ \E l \in {PrevDay(t, e, doy)} : Pass(l)
PrevHourStep == pc = "hour" /\ op = "Prev" /\ InWindow(t)
                   /\ \E l \in {PrevHour(t, e, dateY, dateMon, dateDom, doy)} : Pass(l)

Next ==
    \/ DoParse
    \/ CallNext
    \/ CallPrev
    \/ AgainNext
    \/ AgainPrev
    \/ NextDayStep
    \/ NextHourStep
    \/ PrevDayStep
    \/ PrevHourStep

Spec == Init /\ [][Next]_vars

-----------------------------------------------------------------------------
(* Vocabulary of the properties *)

\* the five masks are non-empty and lie inside their field domains
InDomain(E) ==
    /\ E.m # {}   /\ E.m \subseteq 0 .. 59
    /\ E.h # {}   /\ E.h \subseteq 0 .. 23
    /\ E.dom # {} /\ E.dom \subseteq 1 .. 31
    /\ E.mon # {} /\ E.mon \subseteq 1 .. 12
    /\ E.dow # {} /\ E.dow \subseteq 0 .. 6

\* day number z has its month, day-of-month and day-of-week bits set
DayMatches(z, E) ==
    /\ Civil(z).mon \in E.mon
    /\ Civil(z).dom \in E.dom
    /\ ((z + 3) % 7) \in E.dow

\* the minute-aligned instant at minute x has all five bits set
Matches(x, E) ==
    /\ DayMatches(x \div MinutesPerDay, E)
    /\ ((x % MinutesPerDay) \div 60) \in E.h
    /\ (x % 60) \in E.m

\* no minute-aligned instant x with lo < x < hi has all five bits set
NoMatchBetween(lo, hi, E) ==
    \A z \in (lo \div MinutesPerDay) .. (hi \div MinutesPerDay) :
        DayMatches(z, E) =>
            \A h \in E.h, mi \in E.m :
                LET x == z * MinutesPerDay + h * 60 + mi
                IN  ~(lo < x /\ x < hi)

\* instant a is strictly earlier than instant b
Before(a, b) == a.m < b.m \/ (a.m = b.m /\ a.s < b.s)

\* first minute that is not strictly earlier than instant f
CeilMinute(f) == IF f.s > 0 THEN f.m + 1 ELSE f.m

-----------------------------------------------------------------------------
(* Claims about Next and Prev *)

\* C1: for masks that are non-empty and in their domains, Next(from) is the
\* earliest minute-aligned instant strictly later than from whose five
\* components are all in the masks: it matches, and no matching instant lies
\* strictly between from and it.
C1_NextIsEarliest ==
    (pc = "done" /\ op = "Next" /\ InDomain(e)) =>
        /\ t.s = 0
        /\ t.m > from.m
        /\ Matches(t.m, e)
        /\ NoMatchBetween(from.m, t.m, e)

\* a Next call returned after its search went through a later month
C1_Witness ==
    /\ pc = "done" /\ op = "Next" /\ InDomain(e)
    /\ Civil(DayOf(t)).mon # Civil(DayOf(from)).mon
    /\ e.dow # 0 .. 6

\* C2: for masks that are non-empty and in their domains and every instant
\* from, seconds or not, Prev(from) is the latest minute-aligned instant
\* strictly earlier than from whose five components are all in the masks.
C2_PrevIsLatest ==
    (pc = "done" /\ op = "Prev" /\ InDomain(e)) =>
        /\ t.s = 0
        /\ Before(t, from)
        /\ Matches(t.m, e)
        /\ NoMatchBetween(t.m, CeilMinute(from), e)

\* C6: a result is on the right side of the argument, minute-aligned, and
\* its five components have their bits set in the masks.
C6_ResultMatches ==
    pc = "done" =>
        /\ t.s = 0
        /\ Matches(t.m, e)
        /\ (op = "Next" => Before(from, t))
        /\ (op = "Prev" => Before(t, from))

\* both methods returned, one of them for an argument with seconds
C6_Witness ==
    /\ Len(hist) >= 2
    /\ \E i \in 1 .. Len(hist) : hist[i].op = "Next" /\ hist[i].from.s # 0
    /\ \E i \in 1 .. Len(hist) : hist[i].op = "Prev"

\* C9: from a minute-aligned instant that matches, Next then Prev, and Prev
\* then Next, come back to it.
C9_Inverse ==
    \A i \in 1 .. Len(hist) - 1 :
        (/\ InDomain(e)
         /\ hist[i].op # hist[i + 1].op
         /\ hist[i + 1].from = hist[i].result
         /\ hist[i].from.s = 0
         /\ Matches(hist[i].from.m, e))
        => hist[i + 1].result = hist[i].from

\* Next then Prev, and Prev then Next, both ran from a matching instant
C9_Witness ==
    /\ Len(hist) = 3 /\ InDomain(e) /\ e.mon # 1 .. 12
    /\ hist[1].op = "Prev" /\ hist[2].op = "Next" /\ hist[3].op = "Prev"
    /\ Matches(hist[2].from.m, e)
    /\ hist[3].result = hist[2].from

\* C10: a pass of a loop that does not accept moves the working instant
\* strictly forward in Next and strictly backward in Prev.
C10_StrictProgress ==
    [][ ((pc = "day" /\ pc' = "day") \/ (pc = "hour" /\ pc' \in {"hour", "day"}))
        => /\ (op = "Next" => t'.m > t.m)
           /\ (op = "Prev" => t'.m < t.m) ]_vars

\* the day search was restarted after the hour search left the day
C10_Witness ==
    /\ pc = "day" /\ doy # 0
    /\ op = "Prev" /\ t.m < PrevStart(from).m

-----------------------------------------------------------------------------
(* Parse alone, on the parser corpus *)

ParseInit ==
    /\ expr \in ParseExprs
    /\ e = zeroExpr
    /\ err = "nil"
    /\ pc = "start"
    /\ op = "none"
    /\ from = zeroTime
    /\ t = zeroTime
    /\ dateY = 0 /\ dateMon = 0 /\ dateDom = 0 /\ doy = 0
    /\ hist = <<>>
    /\ fin = noField
    /\ fout = noResult

ParseNext == DoParse

SpecParse == ParseInit /\ [][ParseNext]_vars

Returned == pc \in {"ready", "failed"}

\* field i of expr
FieldOf(x, i) == splitFields(x)[i]

\* some group of some field is a range whose end is less than its start
HasBackwardRange(x) ==
    \E i \in 1 .. 5 :
        \E k \in 1 .. Len(Split(FieldOf(x, i), ",")) :
            LET num == ToLower(Split(FieldOf(x, i), ",")[k])
            IN  /\ Cut(Cut(num, "/").before, "-").found
                /\ refGroup(num, fieldSpecs[i][1], 64).to
                     < refGroup(num, fieldSpecs[i][1], 64).from

\* C3: Parse returns an error for every expression with a group whose range
\* end is less than its range start, written with numbers, aliases or both,
\* with or without a step.
C3_RejectsBackwardRanges ==
    (Returned /\ HasBackwardRange(expr)) => err # "nil"

\* C4: every Expr that Parse returns with a nil error has, in each of its
\* five masks, at least one bit set inside the domain of the field.
C4_MasksNonEmpty ==
    (Returned /\ err = "nil") =>
        /\ e.m \cap (0 .. 59) # {}
        /\ e.h \cap (0 .. 23) # {}
        /\ e.dom \cap (1 .. 31) # {}
        /\ e.mon \cap (1 .. 12) # {}
        /\ e.dow \cap (0 .. 6) # {}

\* each of the five fields is valid on its own: parseField returns no error
\* for it and the reference parser accepts it
FieldsValid(x) ==
    \A i \in 1 .. 5 :
        /\ closureCalls(splitFields(x))[i].err = "nil"
        /\ parseCronField(ToLower(FieldOf(x, i)), fieldSpecs[i][1], 64)

\* days a month can hold when leap years are not reasoned about
DaysIn(mo) == IF mo = 2 THEN 29 ELSE IF mo \in {4, 6, 9, 11} THEN 30 ELSE 31

\* C7: given five individually valid fields, Parse accepts the expression if
\* and only if some selected month can contain some selected day of month
\* (31 days for Jan, Mar, May, Jul, Aug, Oct, Dec; 30 for Apr, Jun, Sep, Nov;
\* 29 for Feb).
C7_CrossFieldIff ==
    (Returned /\ FieldsValid(expr)) =>
        (err = "nil" <=> \E mo \in e.mon, d \in e.dom : d <= DaysIn(mo))

\* a February-only expression was rejected for its days of month, all five
\* fields being valid
C7_Witness ==
    /\ pc = "failed" /\ FieldsValid(expr)
    /\ e.mon = {2} /\ e.dom = {30, 31}
    /\ err = "doesn't match any day of month 2"

-----------------------------------------------------------------------------
(* Termination of Next and Prev.  The working instant is kept modulo 400   *)
(* years, which keeps every quantity the loops read, so a search that      *)
(* never returns is a cycle of this specification.                         *)

PassW(l) == Pass([l EXCEPT !.t = Wrap(l.t)])

TermNextDay  == pc = "day"  /\ op = "Next"
                   /\ \E l \in {NextDay(t, e, doy)} : PassW(l)
TermNextHour == pc = "hour" /\ op = "Next"
                   /\ \E l \in {NextHour(t, e, dateY, dateMon, dateDom, doy)} : PassW(l)
TermPrevDay  == pc = "day"  /\ op = "Prev"
                   /\ \E l \in {PrevDay(t, e, doy)} : PassW(l)
TermPrevHour == pc = "hour" /\ op = "Prev"
                   /\ \E l \in {PrevHour(t, e, dateY, dateMon, dateDom, doy)} : PassW(l)

\* a pass of a loop of the running call
TermPass ==
    \/ TermNextDay
    \/ TermNextHour
    \/ TermPrevDay
    \/ TermPrevHour

TermNext ==
    \/ DoParse
    \/ CallNext
    \/ CallPrev
    \/ TermPass

\* Next and Prev are sequential code: once a call is entered, the pass that
\* is possible is taken.
SpecTerm == Init /\ [][TermNext]_vars /\ WF_vars(TermPass)

\* C5: for every expression that Parse accepts, every call of Next and of
\* Prev returns.
C5_Terminates == (pc = "day") ~> (pc = "done")

\* the calls on an Expr whose masks are non-empty and in their domains return
TerminatesInDomain == (pc = "day" /\ InDomain(e)) ~> (pc = "done")

-----------------------------------------------------------------------------
(* parseField alone, on field texts written from lists of groups *)

MaxGroups == 2    \* groups in one field text

\* strconv.Itoa for 0..99
Itoa(n) ==
    IF n < 10 THEN <<DigitChars[n + 1]>>
    ELSE <<DigitChars[(n \div 10) + 1], DigitChars[(n % 10) + 1]>>

\* the text of one group
GroupText(g) ==
    CASE g.kind = "star"      -> star
      [] g.kind = "num"       -> Itoa(g.a)
      [] g.kind = "range"     -> Itoa(g.a) \o <<"-">> \o Itoa(g.b)
      [] g.kind = "rangeStep" -> Itoa(g.a) \o <<"-">> \o Itoa(g.b) \o <<"/">> \o Itoa(g.s)
      [] g.kind = "numStep"   -> Itoa(g.a) \o <<"/">> \o Itoa(g.s)

\* the groups joined by commas
RECURSIVE FieldText(_)
FieldText(gs) ==
    IF Len(gs) = 1 THEN GroupText(gs[1])
    ELSE GroupText(gs[1]) \o <<",">> \o FieldText(Tail(gs))

\* groups with in-domain numbers a <= b and a step 1 <= s <= max-min+1
Groups(min, max) ==
    LET mid   == (min + max) \div 2
        vals  == {min, mid, max}
        steps == {1, 3}
    IN  {[kind |-> "star", a |-> min, b |-> max, s |-> 1]}
        \cup {[kind |-> "num", a |-> a, b |-> a, s |-> 1] : a \in vals}
        \cup {g \in {[kind |-> "range", a |-> a, b |-> b, s |-> 1] :
                         a \in vals, b \in vals} : g.a <= g.b}
        \cup {g \in {[kind |-> "rangeStep", a |-> a, b |-> b, s |-> st] :
                         a \in vals, b \in vals, st \in steps} : g.a < g.b}
        \cup {[kind |-> "numStep", a |-> a, b |-> max, s |-> st] :
                  a \in {min, mid}, st \in steps \cup {max - min + 1}}

FieldInputs ==
    UNION {
        {[typ |-> i, groups |-> gs] :
            gs \in UNION {[1 .. n -> Groups(fieldSpecs[i][2], fieldSpecs[i][3])] :
                            n \in 1 .. MaxGroups}} :
        i \in 1 .. 5}

FieldInit ==
    /\ fin \in FieldInputs
    /\ fout = noResult
    /\ pc = "field"
    /\ expr = <<>>
    /\ e = zeroExpr
    /\ err = "nil"
    /\ op = "none"
    /\ from = zeroTime
    /\ t = zeroTime
    /\ dateY = 0 /\ dateMon = 0 /\ dateDom = 0 /\ doy = 0
    /\ hist = <<>>

\* field, err := parseField(groups, typ, min, max)
DoParseField ==
    /\ pc = "field"
    /\ \E r \in {parseField(FieldText(fin.groups), fieldSpecs[fin.typ][1],
                            fieldSpecs[fin.typ][2], fieldSpecs[fin.typ][3])} :
           fout' = r
    /\ pc' = "fielded"
    /\ UNCHANGED <<expr, e, err, op, from, t, dateY, dateMon, dateDom, doy, hist, fin>>

FieldNext == DoParseField

SpecField == FieldInit /\ [][FieldNext]_vars

\* the values a group stands for
Expected(g) ==
    IF g.kind \in {"rangeStep", "numStep"}
    THEN {v \in g.a .. g.b : \E k \in 0 .. 63 : v = g.a + k * g.s}
    ELSE g.a .. g.b

\* C8: for a list of groups with in-domain numbers a <= b and a step
\* 1 <= s <= max-min+1, parseField returns without error the mask whose bits
\* are exactly the union of the groups' values (* -> min..max, a -> {a},
\* a-b -> a..b, a-b/s -> a, a+s, .. <= b, a/s -> a, a+s, .. <= max), and the
\* bit-range subtraction of the step-1 path sets the same bits as the loop.
C8_FieldIsUnion ==
    pc = "fielded" =>
        /\ fout.err = "nil"
        /\ fout.field = UNION {Expected(fin.groups[k]) : k \in 1 .. Len(fin.groups)}
        /\ fout.field \subseteq fieldSpecs[fin.typ][2] .. fieldSpecs[fin.typ][3]
        /\ \A k \in 1 .. Len(fin.groups) :
               rangeBits(fin.groups[k].a, fin.groups[k].b)
                 = stepBits(fin.groups[k].a, fin.groups[k].b, 1)

\* a field text of two stepped groups, one with and one without an upper
\* bound, was parsed
C8_Witness ==
    /\ pc = "fielded" /\ Len(fin.groups) = 2
    /\ fin.groups[1].kind = "numStep" /\ fin.groups[1].s = 3
    /\ fin.groups[2].kind = "rangeStep" /\ fin.groups[2].s = 1
    /\ fout.err = "nil" /\ fout.field # {}

-----------------------------------------------------------------------------
(* Specification SpecUnmarshal: an Expr is built by Parse and then
   overwritten through UnmarshalText *)

\* month fields of the texts handed to UnmarshalText
UnmarshalMonFields ==
    { <<"*">>,
      <<"2">>,
      <<"4",",","6",",","9",",","1","1">>,
      <<"1","3">>,
      <<"f","e","b","-","j","a","n">>,
      <<"6","-","4">> }

\* texts handed to UnmarshalText
UnmarshalTexts ==
    NavExprs
    \cup {Join5(<<f, star, star, star, star>>) : f \in MinuteFields}
    \cup {Join5(<<star, f, star, star, star>>) : f \in HourFields}
    \cup {Join5(<<star, star, d, mo, star>>) :
              d \in DomFields, mo \in UnmarshalMonFields}

\* *e, err = Parse(string(text)); return err
\* The receiver is assigned whatever Parse returned, whether or not err is nil.
Assign(text, r) ==
    /\ expr' = text
    /\ e' = r.e
    /\ err' = r.err
    /\ pc' = IF r.err = "nil" THEN "ready" ELSE "failed"

\* e.UnmarshalText(text), on the zero Expr or on one that Parse or an
\* earlier UnmarshalText left behind
UnmarshalText ==
    /\ pc \in {"start", "ready", "failed"}
    /\ \E text \in UnmarshalTexts : \E r \in {Parse(text)} : Assign(text, r)
    /\ UNCHANGED <<op, from, t, dateY, dateMon, dateDom, doy, hist, fin, fout>>

UnmarshalNext == DoParse \/ UnmarshalText

SpecUnmarshal == Init /\ [][UnmarshalNext]_vars

\* the receiver holds a successfully parsed schedule
HoldsSchedule == pc = "ready" /\ err = "nil" /\ e.expr # <<>>

\* C11: when UnmarshalText is called on an Expr that holds a successfully
\* parsed schedule and the text is invalid, it returns an error and the
\* receiver keeps its source string and its five masks.
C11_UnmarshalAllOrNothing ==
    [][(HoldsSchedule /\ Parse(expr').err # "nil")
           => (err' # "nil" /\ e' = e)]_vars

====
